---- MODULE Spec2Model ----
(***************************************************************************)
(* menu-mailer: the directory index (src/src/menu_index.py) and the daily  *)
(* send scheduler (src/src/mailer.py), driven as in src/src/app.py.        *)
(*                                                                         *)
(* Time is in seconds since local midnight of day 0; day 0 is 2024-01-05,  *)
(* a Friday.  File names are sequences of one-character strings, so that   *)
(* DATE_PATTERN, Path.suffix and the name comparison are computed on the   *)
(* characters as the code computes them.                                   *)
(***************************************************************************)
EXTENDS Integers, Sequences, FiniteSets, TLC

VARIABLES
    now,                \* the wall clock read by datetime.now()
    dir_exists,         \* menu_image_dir.exists()
    files,              \* the directory's entries: records [name, is_file]
    date_to_path,       \* MenuIndex._date_to_path
    last_scan,          \* MenuIndex._last_scan
    skip_weekends,      \* Settings.skip_weekends
    smtp_host,          \* Settings.smtp_host
    mail_from,          \* Settings.mail_from
    mail_to,            \* Settings.mail_to, as its comma-separated items
    last_sent_date,     \* MenuMailer._last_sent_date
    last_sent_at,       \* MenuMailer._last_sent_at
    last_attempt_at,    \* MenuMailer._last_attempt_at
    last_result,        \* MenuMailer._last_result
    last_error,         \* MenuMailer._last_error
    last_handled_date,  \* MenuMailer._last_handled_date
    last_missing_log_at,\* MenuMailer._last_missing_log_at
    lastOp,             \* history: what the last operation did and returned
    deliveries,         \* history: days on which a delivery succeeded
    lateTicks,          \* history: days on which a tick ran past the deadline
    attemptFailed,      \* history: the attempt recorded in last_attempt_at failed
    lock,               \* MenuIndex._lock: who holds it
    scan_pc,            \* where a running scan() stands
    scan_time,          \* scan_time of the running scan()
    new_map,            \* new_map of the running scan()
    todo,               \* the entries iterdir() has still to yield
    read_pc,            \* where a running get_image_path() or last_scan_iso() stands
    read_call,          \* that call and its argument
    latest,             \* history: the snapshot _update_index completed last
    scanned,            \* history: the scan() that runs or ran last
    mailer_task,        \* the task of mailer_loop: where it stands
    scan_task,          \* the task of scan_loop: where it stands
    request             \* the POST /send-now request being served, if any

(***************************************************************************)
(* Bounds of the model.                                                    *)
(***************************************************************************)
\* The number of instants at which the clock is read.
Horizon == 6

\* The number of entries the directory holds while the scheduler runs.
MaxFiles == 1

\* The number of entries of a directory that is scanned step by step.
MaxEntries == 2

\* The number of scans run step by step.
MaxScans == 3

(***************************************************************************)
(* Python's None, for the optional dates and timestamps.                   *)
(***************************************************************************)
None == -1

(***************************************************************************)
(* Characters and strings.                                                 *)
(***************************************************************************)
\* The characters used in file names, in code-point order.
Chars == << "-", ".", "0", "1", "2", "3", "4", "5", "6", "7", "8", "9",
            "G", "N", "P", "_", "a", "b", "g", "n", "p", "t", "x" >>

Ord(c) == CHOOSE i \in 1..Len(Chars) : Chars[i] = c

Digits == << "0", "1", "2", "3", "4", "5", "6", "7", "8", "9" >>

IsDigit(c) == \E i \in 1..10 : Digits[i] = c

DigitVal(c) == (CHOOSE i \in 1..10 : Digits[i] = c) - 1

\* str.lower() on one character.
LowerChar(c) == CASE c = "G" -> "g" [] c = "N" -> "n" [] c = "P" -> "p" [] OTHER -> c

Lower(s) == [i \in 1..Len(s) |-> LowerChar(s[i])]

\* Python's str < str: the first differing character decides, a proper
\* prefix is smaller.
RECURSIVE StrLess(_, _)
StrLess(a, b) ==
    IF b = << >> THEN FALSE
    ELSE IF a = << >> THEN TRUE
    ELSE IF a[1] = b[1] THEN StrLess(Tail(a), Tail(b))
    ELSE Ord(a[1]) < Ord(b[1])

\* Path.suffix: the name from its last dot on, empty when there is no dot,
\* when the only dot leads the name or when the name ends with a dot.
Suffix(name) ==
    LET dots == {i \in 1..Len(name) : name[i] = "."}
    IN  IF dots = {} THEN << >>
        ELSE LET k == CHOOSE i \in dots : \A j \in dots : j <= i
             IN  IF k = 1 \/ k = Len(name) THEN << >>
                 ELSE SubSeq(name, k, Len(name))

DotPng == << ".", "p", "n", "g" >>

\* \d{4}-\d{2}-\d{2} on the first ten characters.
DateShaped(s) ==
    /\ Len(s) = 10
    /\ \A i \in {1, 2, 3, 4, 6, 7, 9, 10} : IsDigit(s[i])
    /\ s[5] = "-"
    /\ s[8] = "-"

\* DATE_PATTERN.match(name): the date, optionally "_" and at least one more
\* character, then ".png" in any case, to the end of the name.
PatternMatches(name) ==
    /\ Len(name) >= 14
    /\ DateShaped(SubSeq(name, 1, 10))
    /\ Lower(SubSeq(name, Len(name) - 3, Len(name))) = DotPng
    /\ \/ Len(name) = 14
       \/ name[11] = "_" /\ Len(name) >= 16

\* match.group("date")
DateGroup(name) == SubSeq(name, 1, 10)

IsLeap(y) == (y % 4 = 0 /\ y % 100 # 0) \/ y % 400 = 0

DaysInMonth(y, m) ==
    IF m = 2 THEN (IF IsLeap(y) THEN 29 ELSE 28)
    ELSE IF m \in {4, 6, 9, 11} THEN 30 ELSE 31

\* date.fromisoformat(date_str) does not raise ValueError.
ValidIsoDate(s) ==
    LET y == 1000 * DigitVal(s[1]) + 100 * DigitVal(s[2])
             + 10 * DigitVal(s[3]) + DigitVal(s[4])
        m == 10 * DigitVal(s[6]) + DigitVal(s[7])
        d == 10 * DigitVal(s[9]) + DigitVal(s[10])
    IN  /\ y >= 1
        /\ m \in 1..12
        /\ d >= 1
        /\ d <= DaysInMonth(y, m)

(***************************************************************************)
(* The clock.                                                              *)
(***************************************************************************)
\* now.date(), as a day number.
DateOf(t) == t \div 86400

\* today.weekday(): Monday is 0; day 0 is a Friday.
Weekday(d) == (d + 4) % 7

\* today.isoformat(): day d is 2024-01-(05+d).
IsoFormat(d) ==
    << "2", "0", "2", "4", "-", "0", "1", "-",
       Digits[((d + 5) \div 10) + 1], Digits[((d + 5) % 10) + 1] >>

\* The times of day at which the clock is read: 06:59:30, 07:00:00,
\* 07:02:00, 08:01:00.
TimesOfDay == {25170, 25200, 25320, 28860}

\* The days the first Horizon readings fall on.
Days == 0..((Horizon - 1) \div Cardinality(TimesOfDay))

Grid == {d * 86400 + s : d \in Days, s \in TimesOfDay}

\* The first Horizon readings of the clock.
Instants == {t \in Grid : Cardinality({u \in Grid : u < t}) < Horizon}

(***************************************************************************)
(* The directory.                                                          *)
(***************************************************************************)
File(name) == [name |-> name, is_file |-> TRUE]

Directory(name) == [name |-> name, is_file |-> FALSE]

Day0 == IsoFormat(0)

Day1 == IsoFormat(1)

\* 2024-01-05.png, 2024-01-05_a.png, 2024-01-05_b.PNG, 2024-01-06.png
Plain0 == File(Day0 \o << ".", "p", "n", "g" >>)

A0 == File(Day0 \o << "_", "a", ".", "p", "n", "g" >>)

B0 == File(Day0 \o << "_", "b", ".", "P", "N", "G" >>)

Plain1 == File(Day1 \o << ".", "p", "n", "g" >>)

\* 2024-02-30.png: the pattern matches, the date is no calendar date.
BadDate == File(<< "2", "0", "2", "4", "-", "0", "2", "-", "3", "0", ".", "p", "n", "g" >>)

\* 2024-01-05x.png: a suffix without the underscore.
NoUnderscore == File(Day0 \o << "x", ".", "p", "n", "g" >>)

\* 2024-01-05.txt
TextFile == File(Day0 \o << ".", "t", "x", "t" >>)

\* A subdirectory named 2024-01-06_a.png.
SubDir == Directory(Day1 \o << "_", "a", ".", "p", "n", "g" >>)

\* The menu image of day d: 2024-01-(05+d).png
MenuImage(d) == File(IsoFormat(d) \o << ".", "p", "n", "g" >>)

\* Everything a scanned directory may hold.
AllEntries == {Plain0, A0, B0, Plain1, BadDate, NoUnderscore, TextFile, SubDir}

(***************************************************************************)
(* MenuIndex                                                               *)
(***************************************************************************)
EmptyMap == [k \in {} |-> Plain0]

\* new_map[date_str] = entry
MapPut(map, key, entry) ==
    [k \in (DOMAIN map) \cup {key} |-> IF k = key THEN entry ELSE map[k]]

\* Replaces, for a loop that keeps the entry it met last.
Replaces_last(entry, existing) == TRUE

\* Replaces, with the comparison turned round.
Replaces_greater(entry, existing) == StrLess(existing.name, entry.name)

\* The tie-break of scan: entry replaces existing.
Replaces(entry, existing) == StrLess(entry.name, existing.name)

\* One iteration of the loop of scan over the directory.
ScanEntry(map, entry) ==
    IF ~entry.is_file THEN map
    ELSE IF Lower(Suffix(entry.name)) # DotPng THEN map
    ELSE IF ~PatternMatches(entry.name) THEN map
    ELSE IF ~ValidIsoDate(DateGroup(entry.name)) THEN map
    ELSE LET date_str == DateGroup(entry.name)
         IN  IF date_str \notin DOMAIN map \/ Replaces(entry, map[date_str])
             THEN MapPut(map, date_str, entry)
             ELSE map

\* The loop of scan over the entries in the order iterdir() yields them.
RECURSIVE ScanFold(_, _)
ScanFold(entries, map) ==
    IF entries = << >> THEN map
    ELSE ScanFold(Tail(entries), ScanEntry(map, entries[1]))

\* The orders in which iterdir() may yield the entries in S.
Orders(S) ==
    {o \in [1..Cardinality(S) -> S] : \A i, j \in 1..Cardinality(S) : o[i] = o[j] => i = j}

\* MapWhenMissing, for a scan that keeps the published map when the
\* directory is missing.
MapWhenMissing_retained(fresh) == date_to_path

\* The map scan hands to _update_index when the directory does not exist: the
\* new_map it has just created.
MapWhenMissing(fresh) == fresh

\* The map a failed enumeration leaves scan with: what the loop had collected
\* when OSError was raised.
MapOnOSError(collected) == collected

\* The runs of scan over directory content S: the map handed to _update_index
\* and whether OSError was raised.  The error is raised while listing (nothing
\* collected) or by is_file() on an entry (the entries before it collected).
ScanRuns(exists, S) ==
    IF ~exists THEN {[map |-> MapWhenMissing(EmptyMap), oserror |-> FALSE]}
    ELSE {[map |-> ScanFold(o, EmptyMap), oserror |-> FALSE] : o \in Orders(S)}
         \cup
         {[map |-> MapOnOSError(ScanFold(SubSeq(r[1], 1, r[2]), EmptyMap)), oserror |-> TRUE] :
            r \in {q \in Orders(S) \X (0..Cardinality(S)) : q[2] < Cardinality(S) \/ q[2] = 0}}

\* A map with the timestamp of the scan that built it.
Snapshot(map, time) == [map |-> map, time |-> time]

\* get_image_path(date_str) is not None
HasPath(map, date_str) == date_str \in DOMAIN map

\* image_path.exists()
PathExists(path) == dir_exists /\ \E e \in files : e.name = path.name

(***************************************************************************)
(* Settings                                                                *)
(***************************************************************************)
send_hour == 7

send_minute == 0

retry_window_minutes == 60

SEND_RETRY_INTERVAL_SECONDS == 120

MISSING_LOG_INTERVAL_SECONDS == 300

\* addr.strip() on an item of mail_to.split(",")
Strip(addr) == IF addr = " " THEN "" ELSE addr

\* Settings.recipient_list()
RecipientList == SelectSeq(mail_to, LAMBDA addr : Strip(addr) # "")

\* The mail settings the deployments are run with: complete; no host; no
\* sender; a recipient list of blanks.
MailSettings ==
    { [smtp_host |-> "smtp.example.org", mail_from |-> "menu@example.org",
       mail_to |-> << "parents@example.org" >>],
      [smtp_host |-> "", mail_from |-> "menu@example.org",
       mail_to |-> << "parents@example.org" >>],
      [smtp_host |-> "smtp.example.org", mail_from |-> "",
       mail_to |-> << "", " " >>] }

(***************************************************************************)
(* MenuMailer                                                              *)
(***************************************************************************)
Sched == << last_sent_date, last_sent_at, last_attempt_at, last_result,
            last_error, last_handled_date, last_missing_log_at >>

Settings == << skip_weekends, smtp_host, mail_from, mail_to >>

Index == << date_to_path, last_scan >>

Disk == << dir_exists, files >>

History == << lastOp, deliveries, lateTicks, attemptFailed >>

\* The state of the calls into MenuIndex that run step by step.
Calls == << lock, scan_pc, scan_time, new_map, todo, read_pc, read_call, latest,
           scanned >>

\* The tasks of the event loop.
Loop == << mailer_task, scan_task, request >>

vars == << now, Disk, Index, Settings, Sched, History, Calls, Loop >>

\* What the Mail Sender does with a message: it returns, or it raises.
MailOutcomes == {"delivered", "Connection refused"}

\* What the Notifier does: it returns, or it raises.
NtfyOutcomes == {"posted", "failed"}

NoReturn == [k \in {} |-> ""]

\* The text of an error, as its pieces; "" is the empty sequence.
NoError == << >>

\* ", ".join(missing)
RECURSIVE JoinComma(_)
JoinComma(items) ==
    IF Len(items) = 0 THEN << >>
    ELSE IF Len(items) = 1 THEN items
    ELSE << items[1], ", " >> \o JoinComma(Tail(items))

\* The list missing of _smtp_ready.
MissingSettings ==
    (IF smtp_host = "" THEN << "SMTP_HOST" >> ELSE << >>)
    \o (IF mail_from = "" THEN << "MAIL_FROM" >> ELSE << >>)
    \o (IF RecipientList = << >> THEN << "MAIL_TO" >> ELSE << >>)

\* SmtpReady, for a tick that does not look at the settings.
SmtpReady_assumed == TRUE

\* _smtp_ready() returns True.
SmtpReady == MissingSettings = << >>

\* The last_error _smtp_ready leaves behind.
ErrorAfterSmtpReady ==
    IF SmtpReady THEN last_error
    ELSE << "Missing settings: " >> \o JoinComma(MissingSettings)

\* SkipsWeekend, with > for >=.
SkipsWeekend_sunday(today) == skip_weekends /\ Weekday(today) > 5

\* skip_weekends and today.weekday() >= 5
SkipsWeekend(today) == skip_weekends /\ Weekday(today) >= 5

\* send_start and send_deadline of tick.
SendStart(today) == today * 86400 + send_hour * 3600 + send_minute * 60

SendDeadline(today) == SendStart(today) + retry_window_minutes * 60

\* BeforeStart, for a tick without the check.
BeforeStart_unchecked(t, today) == FALSE

\* now < send_start
BeforeStart(t, today) == t < SendStart(today)

\* AlreadySent, comparing the timestamp where the date is meant.
AlreadySent_timestamp(today) == last_sent_at = today

AlreadySent(today) == last_sent_date = today

\* PastDeadline, for a tick without the check.
PastDeadline_unchecked(t, today) == FALSE

\* PastDeadline, measured against the end of the day.
PastDeadline_midnight(t, today) == t > (today + 1) * 86400

PastDeadline(t, today) == t > SendDeadline(today)

\* Debounced, with <= for <.
Debounced_inclusive(t) ==
    /\ last_attempt_at # None
    /\ t - last_attempt_at <= SEND_RETRY_INTERVAL_SECONDS

\* The debounce of tick on last_attempt_at.
Debounced(t) ==
    /\ last_attempt_at # None
    /\ t - last_attempt_at < SEND_RETRY_INTERVAL_SECONDS

\* image_path is None or not image_path.exists(), on the map looked up.
ImageMissing(map, today) ==
    \/ ~HasPath(map, IsoFormat(today))
    \/ ~PathExists(map[IsoFormat(today)])

\* _log_missing_image
LogMissingImage(t) ==
    IF /\ last_missing_log_at # None
       /\ t - last_missing_log_at < MISSING_LOG_INTERVAL_SECONDS
    THEN UNCHANGED last_missing_log_at
    ELSE last_missing_log_at' = t

\* The record of an operation: which it was, whether it called the Mail
\* Sender, whether that call followed a failed attempt, what became of the
\* Notifier call, what the operation returned, and whether it called
\* get_image_path (send_now always does, tick before any Mail Sender call).
Op(name, mail, ntfy, ret) ==
    [op |-> name, mail |-> mail, retry |-> mail /\ attemptFailed, ntfy |-> ntfy,
     ret |-> ret, lookup |-> mail \/ name = "send_now"]

\* An operation that sends nothing and returns nothing.
Quiet(name) == Op(name, FALSE, "none", NoReturn)

\* A tick that called get_image_path and sent nothing.
LookedUp(name) == [Quiet(name) EXCEPT !.lookup = TRUE]

\* NotifierEscapes, for a _notify_sent without its try.
NotifierEscapes_uncaught(ntfy) == ntfy = "failed"

\* An exception of _send_ntfy leaves _notify_sent: never, _notify_sent
\* catches Exception and logs.
NotifierEscapes(ntfy) == FALSE

\* What the caller of tick() or send_now() gets after _notify_sent: the
\* return value ret, or the exception.
AfterNotify(ntfy, ret) ==
    IF NotifierEscapes(ntfy) THEN [raised |-> "URLError"] ELSE ret

\* SendFailed, for an attempt that is stamped only once it has succeeded.
SendFailed_unstamped(t, message) ==
    /\ last_error' = << message >>
    /\ last_result' = "error"
    /\ attemptFailed' = TRUE
    /\ UNCHANGED << last_attempt_at, last_sent_date, last_sent_at, last_handled_date,
                    last_missing_log_at, deliveries >>

\* The delivery failed: the except branch of tick and of send_now.
SendFailed(t, message) ==
    /\ last_attempt_at' = t
    /\ last_error' = << message >>
    /\ last_result' = "error"
    /\ attemptFailed' = TRUE
    /\ UNCHANGED << last_sent_date, last_sent_at, last_handled_date,
                    last_missing_log_at, deliveries >>

\* SendSucceeded, for a success that leaves the error of an earlier failure.
SendSucceeded_stale_error(t, today) ==
    /\ last_attempt_at' = t
    /\ last_sent_date' = today
    /\ last_sent_at' = t
    /\ last_result' = "sent"
    /\ last_handled_date' = today
    /\ attemptFailed' = FALSE
    /\ deliveries' = deliveries \cup {today}
    /\ UNCHANGED << last_error, last_missing_log_at >>

\* The delivery succeeded: the tail of tick and of send_now.
SendSucceeded(t, today) ==
    /\ last_attempt_at' = t
    /\ last_sent_date' = today
    /\ last_sent_at' = t
    /\ last_result' = "sent"
    /\ last_error' = NoError
    /\ last_handled_date' = today
    /\ attemptFailed' = FALSE
    /\ deliveries' = deliveries \cup {today}
    /\ UNCHANGED last_missing_log_at

\* tick(), from call to return.
TickCall ==
    LET today == DateOf(now)
    IN  /\ lateTicks' = IF now > SendDeadline(today) THEN lateTicks \cup {today} ELSE lateTicks
        /\ UNCHANGED << Calls, now, Disk, Index, Settings >>
        /\ IF SkipsWeekend(today) THEN
               /\ IF last_handled_date # today
                  THEN last_result' = "skipped_weekend" /\ last_handled_date' = today
                  ELSE UNCHANGED << last_result, last_handled_date >>
               /\ UNCHANGED << last_sent_date, last_sent_at, last_attempt_at, last_error,
                               last_missing_log_at, deliveries, attemptFailed >>
               /\ lastOp' = Quiet("tick")
           ELSE IF BeforeStart(now, today) THEN
               /\ UNCHANGED << Sched, deliveries, attemptFailed >>
               /\ lastOp' = Quiet("tick")
           ELSE IF AlreadySent(today) THEN
               /\ UNCHANGED << Sched, deliveries, attemptFailed >>
               /\ lastOp' = Quiet("tick")
           ELSE IF PastDeadline(now, today) THEN
               /\ IF last_handled_date # today
                  THEN last_result' = "missed" /\ last_handled_date' = today
                  ELSE UNCHANGED << last_result, last_handled_date >>
               /\ UNCHANGED << last_sent_date, last_sent_at, last_attempt_at, last_error,
                               last_missing_log_at, deliveries, attemptFailed >>
               /\ lastOp' = Quiet("tick")
           ELSE IF Debounced(now) THEN
               /\ UNCHANGED << Sched, deliveries, attemptFailed >>
               /\ lastOp' = Quiet("tick")
           ELSE IF ImageMissing(date_to_path, today) THEN
               /\ LogMissingImage(now)
               /\ last_result' = "waiting_image"
               /\ UNCHANGED << last_sent_date, last_sent_at, last_attempt_at, last_error,
                               last_handled_date, deliveries, attemptFailed >>
               /\ lastOp' = LookedUp("tick")
           ELSE IF ~SmtpReady THEN
               /\ last_error' = ErrorAfterSmtpReady
               /\ last_result' = "config_error"
               /\ UNCHANGED << last_sent_date, last_sent_at, last_attempt_at,
                               last_handled_date, last_missing_log_at, deliveries,
                               attemptFailed >>
               /\ lastOp' = LookedUp("tick")
           ELSE \E outcome \in MailOutcomes :
                   IF outcome # "delivered" THEN
                       /\ SendFailed(now, outcome)
                       /\ lastOp' = Op("tick", TRUE, "none", NoReturn)
                   ELSE \E ntfy \in NtfyOutcomes :
                       /\ SendSucceeded(now, today)
                       /\ lastOp' = Op("tick", TRUE, ntfy, AfterNotify(ntfy, NoReturn))

\* mailer_loop runs tick(), which returns before anything else runs.
Tick == TickCall /\ UNCHANGED Loop

\* The dicts send_now returns.
\* MissingImageResult, without the date, as the dicts of the error outcomes.
MissingImageResult_undated(today, detail) ==
    [status |-> "missing_image", detail |-> detail]

MissingImageResult(today, detail) ==
    [status |-> "missing_image", date |-> IsoFormat(today), detail |-> detail]

ConfigErrorResult(detail) == [status |-> "config_error", detail |-> detail]

ErrorResult(detail) == [status |-> "error", detail |-> detail]

SentResult(today, t) == [status |-> "sent", date |-> IsoFormat(today), sent_at |-> t]

\* MapLookedUp, with the lookup ahead of the scan.
MapLookedUp_stale(before, refreshed) == before

\* The map send_now looks today's image up in: the index as its scan left it.
MapLookedUp(before, refreshed) == refreshed

\* send_now(), from call to return.
SendNowCall ==
    LET today == DateOf(now)
        detail == << "Menu image not found for " >> \o IsoFormat(today)
    IN  \E run \in ScanRuns(dir_exists, files) :
        /\ date_to_path' = run.map
        /\ last_scan' = now
        /\ UNCHANGED << Calls, now, Disk, Settings, lateTicks >>
        /\ IF ImageMissing(MapLookedUp(date_to_path, run.map), today) THEN
               /\ last_result' = "missing_image"
               /\ last_error' = detail
               /\ UNCHANGED << last_sent_date, last_sent_at, last_attempt_at,
                               last_handled_date, last_missing_log_at, deliveries,
                               attemptFailed >>
               /\ lastOp' = Op("send_now", FALSE, "none", MissingImageResult(today, detail))
           ELSE IF ~SmtpReady THEN
               /\ last_error' = ErrorAfterSmtpReady
               /\ last_result' = "config_error"
               /\ UNCHANGED << last_sent_date, last_sent_at, last_attempt_at,
                               last_handled_date, last_missing_log_at, deliveries,
                               attemptFailed >>
               /\ lastOp' = Op("send_now", FALSE, "none", ConfigErrorResult(ErrorAfterSmtpReady))
           ELSE \E outcome \in MailOutcomes :
                   IF outcome # "delivered" THEN
                       /\ SendFailed(now, outcome)
                       /\ lastOp' = Op("send_now", TRUE, "none", ErrorResult(<< outcome >>))
                   ELSE \E ntfy \in NtfyOutcomes :
                       /\ SendSucceeded(now, today)
                       /\ lastOp' = Op("send_now", TRUE, ntfy,
                                       AfterNotify(ntfy, SentResult(today, now)))

\* The handler of POST /send-now runs send_now(), which returns before
\* anything else runs.
SendNow == SendNowCall /\ UNCHANGED Loop

\* index.scan(), from call to return.
ScanCall ==
    \E run \in ScanRuns(dir_exists, files) :
        /\ date_to_path' = run.map
        /\ last_scan' = now
        /\ lastOp' = Op("scan", FALSE, "none", [oserror |-> run.oserror])
        /\ UNCHANGED << Calls, now, Disk, Settings, Sched, deliveries, lateTicks, attemptFailed >>

\* index.scan(), as lifespan and scan_loop call it.
Scan == ScanCall /\ UNCHANGED Loop

(***************************************************************************)
(* The environment: the clock and the directory.                           *)
(***************************************************************************)
Advance ==
    /\ \E t \in Instants : t > now /\ now' = t
    /\ lastOp' = Quiet("env")
    /\ UNCHANGED << Calls, Loop, Disk, Index, Settings, Sched, deliveries, lateTicks, attemptFailed >>

\* The menu image of the day arrives.
PutFile ==
    /\ dir_exists
    /\ Cardinality(files) < MaxFiles
    /\ MenuImage(DateOf(now)) \notin files
    /\ files' = files \cup {MenuImage(DateOf(now))}
    /\ lastOp' = Quiet("env")
    /\ UNCHANGED << Calls, Loop, now, dir_exists, Index, Settings, Sched, deliveries, lateTicks,
                    attemptFailed >>

DeleteFile ==
    /\ \E f \in files : files' = files \ {f}
    /\ lastOp' = Quiet("env")
    /\ UNCHANGED << Calls, Loop, now, dir_exists, Index, Settings, Sched, deliveries, lateTicks,
                    attemptFailed >>

\* No call into MenuIndex is running; the index is as __init__ left it.
NoCalls ==
    /\ lock = "free"
    /\ scan_pc = "idle"
    /\ scan_time = None
    /\ new_map = EmptyMap
    /\ todo = {}
    /\ read_pc = "idle"
    /\ read_call = NoReturn
    /\ latest = Snapshot(EmptyMap, None)
    /\ scanned = NoReturn

\* The tasks as lifespan creates them: mailer_loop calls tick() at once,
\* scan_loop sleeps first, and no request is being served.
NoTasks ==
    /\ mailer_task = [pc |-> "ready"]
    /\ scan_task = [pc |-> "sleep"]
    /\ request = [pc |-> "none"]

(***************************************************************************)
(* The state after MenuIndex.__init__ and MenuMailer.__init__.             *)
(***************************************************************************)
Init ==
    /\ now = CHOOSE t \in Instants : \A u \in Instants : t <= u
    /\ dir_exists = TRUE
    /\ files = {}
    /\ date_to_path = EmptyMap
    /\ last_scan = None
    /\ skip_weekends \in BOOLEAN
    /\ \E m \in MailSettings :
          /\ smtp_host = m.smtp_host
          /\ mail_from = m.mail_from
          /\ mail_to = m.mail_to
    /\ last_sent_date = None
    /\ last_sent_at = None
    /\ last_attempt_at = None
    /\ last_result = "idle"
    /\ last_error = NoError
    /\ last_handled_date = None
    /\ last_missing_log_at = None
    /\ lastOp = Quiet("env")
    /\ deliveries = {}
    /\ lateTicks = {}
    /\ attemptFailed = FALSE
    /\ NoCalls
    /\ NoTasks

Next ==
    \/ Tick
    \/ SendNow
    \/ Scan
    \/ Advance
    \/ PutFile
    \/ DeleteFile

Spec == Init /\ [][Next]_vars

(***************************************************************************)
(* MenuIndex step by step: one scan() at a time, as scan_loop runs it,     *)
(* against get_image_path() and last_scan_iso() calls of other threads.    *)
(***************************************************************************)
Rest == << Settings, Sched, History, Loop >>

\* UpdateTakesLock, for an _update_index that assigns without the lock.
UpdateTakesLock_never == FALSE

\* _update_index assigns inside "with self._lock".
UpdateTakesLock == TRUE

\* scan_loop wakes from its sleep and scan() reads the clock, which has
\* moved on since the scan before.  scanned records the call: the snapshot
\* before it, how many calls in a row (1, 2 for two or more) have begun since
\* the directory last changed (0 once it changes), and whether the call
\* before raised OSError.
ScanBegin ==
    /\ scan_pc = "idle"
    /\ Cardinality({u \in Instants : u <= now}) <= MaxScans
    /\ \E t \in Instants :
          /\ t > now
          /\ \A u \in Instants : u > now => t <= u
          /\ now' = t
          /\ scan_time' = t
    /\ new_map' = EmptyMap
    /\ todo' = {}
    /\ scan_pc' = "exists"
    /\ scanned' = [before |-> Snapshot(date_to_path, last_scan),
                   steady |-> IF "steady" \in DOMAIN scanned
                              THEN (IF scanned.steady = 0 THEN 1 ELSE 2)
                              ELSE 1,
                   prev_oserror |-> "oserror" \in DOMAIN scanned /\ scanned.oserror]
    /\ UNCHANGED << Disk, Index, Rest, lock, read_pc, read_call, latest >>

\* if not self._menu_image_dir.exists()
ScanExists ==
    /\ scan_pc = "exists"
    /\ scan_pc' = IF dir_exists THEN "list" ELSE "update"
    /\ scanned' = [before |-> scanned.before, steady |-> scanned.steady,
                   prev_oserror |-> scanned.prev_oserror, existed |-> dir_exists,
                   entries |-> {}, oserror |-> FALSE]
    /\ new_map' = IF dir_exists THEN new_map ELSE MapWhenMissing(new_map)
    /\ UNCHANGED << now, Disk, Index, Rest, lock, scan_time, todo, read_pc, read_call,
                    latest >>

\* iterdir() lists the directory.
ScanList ==
    /\ scan_pc = "list"
    /\ dir_exists
    /\ todo' = files
    /\ scan_pc' = "iterate"
    /\ scanned' = [scanned EXCEPT !.entries = files]
    /\ UNCHANGED << now, Disk, Index, Rest, lock, scan_time, new_map, read_pc, read_call,
                    latest >>

\* A listed entry as is_file() finds it now: what has vanished since the
\* listing is no file.
StatNow(entry) ==
    [entry EXCEPT !.is_file = entry.is_file /\ dir_exists /\ entry \in files]

\* One iteration of the loop, on whichever entry iterdir() yields next; the
\* loop ends when none is left.
ScanIterate ==
    /\ scan_pc = "iterate"
    /\ IF todo = {}
       THEN scan_pc' = "update" /\ UNCHANGED << new_map, todo >>
       ELSE \E entry \in todo :
               /\ new_map' = ScanEntry(new_map, StatNow(entry))
               /\ todo' = todo \ {entry}
               /\ UNCHANGED scan_pc
    /\ UNCHANGED << now, Disk, Index, Rest, lock, scan_time, read_pc, read_call, latest,
                    scanned >>

\* OSError: raised by the listing, or by is_file() on the entry that is next.
ScanOSError ==
    /\ \/ scan_pc = "list"
       \/ scan_pc = "iterate" /\ todo # {}
    /\ scan_pc' = "update"
    /\ new_map' = MapOnOSError(new_map)
    /\ scanned' = [scanned EXCEPT !.oserror = TRUE]
    /\ UNCHANGED << now, Disk, Index, Rest, lock, scan_time, todo, read_pc, read_call,
                    latest >>

\* _update_index: with self._lock
UpdateAcquire ==
    /\ scan_pc = "update"
    /\ IF UpdateTakesLock
       THEN lock = "free" /\ lock' = "scan"
       ELSE UNCHANGED lock
    /\ scan_pc' = "set_map"
    /\ UNCHANGED << now, Disk, Index, Rest, scan_time, new_map, todo, read_pc, read_call,
                    latest, scanned >>

\* self._date_to_path = new_map
UpdateMap ==
    /\ scan_pc = "set_map"
    /\ date_to_path' = new_map
    /\ scan_pc' = "set_time"
    /\ UNCHANGED << now, Disk, last_scan, Rest, lock, scan_time, new_map, todo, read_pc,
                    read_call, latest, scanned >>

\* self._last_scan = scan_time
UpdateTime ==
    /\ scan_pc = "set_time"
    /\ last_scan' = scan_time
    /\ latest' = Snapshot(new_map, scan_time)
    /\ scan_pc' = "release"
    /\ UNCHANGED << now, Disk, date_to_path, Rest, lock, scan_time, new_map, todo,
                    read_pc, read_call, scanned >>

\* The lock is released and scan() returns.
UpdateRelease ==
    /\ scan_pc = "release"
    /\ lock' = IF UpdateTakesLock THEN "free" ELSE lock
    /\ scan_pc' = "idle"
    /\ UNCHANGED << now, Disk, Index, Rest, scan_time, new_map, todo, read_pc, read_call,
                    latest, scanned >>

\* The calls other threads make.
ReadCalls ==
    {[fn |-> "get_image_path", date_str |-> IsoFormat(d)] : d \in Days}
    \cup {[fn |-> "last_scan_iso"]}

\* get_image_path(date_str) or last_scan_iso() enters "with self._lock".
ReadBegin ==
    /\ read_pc = "idle"
    /\ lock = "free"
    /\ lock' = "reader"
    /\ read_pc' = "locked"
    /\ \E call \in ReadCalls : read_call' = call
    /\ UNCHANGED << now, Disk, Index, Rest, scan_pc, scan_time, new_map, todo, latest,
                    scanned >>

\* What the call returns from a map and a timestamp: the path or nothing,
\* or the timestamp.
Answer(call, map, time) ==
    IF call.fn = "last_scan_iso" THEN [time |-> time]
    ELSE IF HasPath(map, call.date_str) THEN [path |-> map[call.date_str]]
    ELSE NoReturn

\* What the running call returns.
ReadResult == Answer(read_call, date_to_path, last_scan)

\* The call returns ReadResult and leaves the lock.
ReadEnd ==
    /\ read_pc = "locked"
    /\ lock' = "free"
    /\ read_pc' = "idle"
    /\ read_call' = NoReturn
    /\ UNCHANGED << now, Disk, Index, Rest, scan_pc, scan_time, new_map, todo, latest,
                    scanned >>

\* The directory disappears between two steps.
DirVanishes ==
    /\ dir_exists
    /\ dir_exists' = FALSE
    /\ files' = {}
    /\ scanned' = IF "steady" \in DOMAIN scanned
                  THEN [scanned EXCEPT !.steady = 0]
                  ELSE scanned
    /\ UNCHANGED << now, Index, Rest, lock, scan_pc, scan_time, new_map, todo, read_pc,
                    read_call, latest >>

\* The scanned directory holds any MaxEntries of the entries.
InitIndex ==
    /\ now = CHOOSE t \in Instants : \A u \in Instants : t <= u
    /\ dir_exists = TRUE
    /\ files \in {S \in SUBSET AllEntries : Cardinality(S) <= MaxEntries}
    /\ date_to_path = EmptyMap
    /\ last_scan = None
    /\ skip_weekends = TRUE
    /\ smtp_host = ""
    /\ mail_from = ""
    /\ mail_to = << >>
    /\ last_sent_date = None
    /\ last_sent_at = None
    /\ last_attempt_at = None
    /\ last_result = "idle"
    /\ last_error = NoError
    /\ last_handled_date = None
    /\ last_missing_log_at = None
    /\ lastOp = Quiet("env")
    /\ deliveries = {}
    /\ lateTicks = {}
    /\ attemptFailed = FALSE
    /\ NoCalls
    /\ NoTasks

NextIndex ==
    \/ ScanBegin
    \/ ScanExists
    \/ ScanList
    \/ ScanIterate
    \/ ScanOSError
    \/ UpdateAcquire
    \/ UpdateMap
    \/ UpdateTime
    \/ UpdateRelease
    \/ ReadBegin
    \/ ReadEnd
    \/ DirVanishes

SpecIndex == InitIndex /\ [][NextIndex]_vars

(***************************************************************************)
(* The event loop of app.py: mailer_loop, scan_loop and the handler of      *)
(* POST /send-now are coroutines of one thread.  A coroutine that runs      *)
(* keeps the thread until it awaits; tick(), send_now() and scan() await    *)
(* nothing.  A call that reaches the Mail Sender stays in _send_email for   *)
(* a while, with the now it read when it started.                          *)
(***************************************************************************)
\* Settings.scan_interval_seconds
scan_interval_seconds == 300

\* HandlerOnLoop, for a handler declared "def", which runs on a worker thread.
HandlerOnLoop_threadpool == FALSE

\* The handler of POST /send-now is an "async def": it runs on the event loop.
HandlerOnLoop == TRUE

\* LoopCatches, for a driver without its try.
LoopCatches_nothing == FALSE

\* The loops of mailer_loop and scan_loop wrap the call in
\* "try ... except Exception", which logs.
LoopCatches == TRUE

Sleeping == [pc |-> "sleep"]

\* Where a driver stands after an exception of its call.
AfterException == IF LoopCatches THEN Sleeping ELSE [pc |-> "dead"]

\* The thread of the event loop is inside no call.
LoopThreadFree ==
    /\ mailer_task.pc # "send"
    /\ HandlerOnLoop => request.pc # "send"

\* tick() gets as far as self._last_attempt_at = now.
TickSends(t, today) ==
    /\ ~SkipsWeekend(today)
    /\ ~BeforeStart(t, today)
    /\ ~AlreadySent(today)
    /\ ~PastDeadline(t, today)
    /\ ~Debounced(t)
    /\ ~ImageMissing(date_to_path, today)
    /\ SmtpReady

\* tick() gets as far as image_path.exists(), the call of it that can raise.
TickStatsImage(t, today) ==
    /\ ~SkipsWeekend(today)
    /\ ~BeforeStart(t, today)
    /\ ~AlreadySent(today)
    /\ ~PastDeadline(t, today)
    /\ ~Debounced(t)
    /\ HasPath(date_to_path, IsoFormat(today))

\* asyncio.sleep(CHECK_INTERVAL_SECONDS) of mailer_loop is over.
MailerWakes ==
    /\ mailer_task.pc = "sleep"
    /\ mailer_task' = [pc |-> "ready"]
    /\ UNCHANGED << now, Disk, Index, Settings, Sched, History, Calls, scan_task, request >>

\* mailer_loop calls tick(): it returns without sending, or it sets
\* last_attempt_at and enters _send_email.
TickBegin ==
    /\ mailer_task.pc = "ready"
    /\ LoopThreadFree
    /\ UNCHANGED << scan_task, request >>
    /\ IF TickSends(now, DateOf(now))
       THEN /\ last_attempt_at' = now
            /\ mailer_task' = [pc |-> "send", now |-> now]
            /\ UNCHANGED << now, Disk, Index, Settings, History, Calls, last_sent_date,
                            last_sent_at, last_result, last_error, last_handled_date,
                            last_missing_log_at >>
       ELSE /\ TickCall
            /\ mailer_task' = Sleeping

\* tick() raises from image_path.exists(); mailer_loop catches it.
TickRaises ==
    /\ mailer_task.pc = "ready"
    /\ LoopThreadFree
    /\ TickStatsImage(now, DateOf(now))
    /\ mailer_task' = AfterException
    /\ lastOp' = [Op("tick", FALSE, "none", [raised |-> "OSError"]) EXCEPT !.lookup = TRUE]
    /\ UNCHANGED << now, Disk, Index, Settings, Sched, deliveries, lateTicks, attemptFailed,
                    Calls, scan_task, request >>

\* _send_email returns or raises, and tick() finishes.
TickEnd ==
    /\ mailer_task.pc = "send"
    /\ mailer_task' = Sleeping
    /\ UNCHANGED << now, Disk, Index, Settings, Calls, lateTicks, scan_task, request >>
    /\ \E outcome \in MailOutcomes :
          IF outcome # "delivered" THEN
              /\ SendFailed(mailer_task.now, outcome)
              /\ lastOp' = Op("tick", TRUE, "none", NoReturn)
          ELSE \E ntfy \in NtfyOutcomes :
              /\ SendSucceeded(mailer_task.now, DateOf(mailer_task.now))
              /\ lastOp' = Op("tick", TRUE, ntfy, AfterNotify(ntfy, NoReturn))

\* A POST /send-now is served while the application is up: send_now()
\* returns without sending, or it sets last_attempt_at and enters _send_email.
SendNowBegin ==
    /\ request.pc = "none"
    /\ mailer_task.pc # "cancelled"
    /\ HandlerOnLoop => mailer_task.pc # "send"
    /\ UNCHANGED << mailer_task, scan_task >>
    /\ \/ /\ SendNowCall
          /\ ~lastOp'.mail
          /\ UNCHANGED request
       \/ \E run \in ScanRuns(dir_exists, files) :
             /\ ~ImageMissing(MapLookedUp(date_to_path, run.map), DateOf(now))
             /\ SmtpReady
             /\ date_to_path' = run.map
             /\ last_scan' = now
             /\ last_attempt_at' = now
             /\ request' = [pc |-> "send", now |-> now]
             /\ UNCHANGED << now, Disk, Settings, History, Calls, last_sent_date,
                             last_sent_at, last_result, last_error, last_handled_date,
                             last_missing_log_at >>

\* _send_email returns or raises, and send_now() finishes.
SendNowEnd ==
    /\ request.pc = "send"
    /\ request' = [pc |-> "none"]
    /\ UNCHANGED << now, Disk, Index, Settings, Calls, lateTicks, mailer_task, scan_task >>
    /\ \E outcome \in MailOutcomes :
          IF outcome # "delivered" THEN
              /\ SendFailed(request.now, outcome)
              /\ lastOp' = Op("send_now", TRUE, "none", ErrorResult(<< outcome >>))
          ELSE \E ntfy \in NtfyOutcomes :
              /\ SendSucceeded(request.now, DateOf(request.now))
              /\ lastOp' = Op("send_now", TRUE, ntfy,
                              AfterNotify(ntfy, SentResult(DateOf(request.now), request.now)))

\* asyncio.sleep(scan_interval_seconds) of scan_loop is over.
ScanWakes ==
    /\ scan_task.pc = "sleep"
    /\ scan_task' = [pc |-> "ready"]
    /\ UNCHANGED << now, Disk, Index, Settings, Sched, History, Calls, mailer_task, request >>

\* scan_loop calls index.scan(), which returns.
ScanLoopScans ==
    /\ scan_task.pc = "ready"
    /\ LoopThreadFree
    /\ ScanCall
    /\ scan_task' = Sleeping
    /\ UNCHANGED << mailer_task, request >>

\* index.scan() raises from self._menu_image_dir.exists(), outside its try;
\* scan_loop catches it.
ScanLoopRaises ==
    /\ scan_task.pc = "ready"
    /\ LoopThreadFree
    /\ scan_task' = AfterException
    /\ lastOp' = Op("scan", FALSE, "none", [raised |-> "OSError"])
    /\ UNCHANGED << now, Disk, Index, Settings, Sched, deliveries, lateTicks, attemptFailed,
                    Calls, mailer_task, request >>

\* The application shuts down: lifespan cancels the two tasks, which are
\* suspended in their sleep.
Shutdown ==
    /\ LoopThreadFree
    /\ mailer_task.pc # "cancelled"
    /\ mailer_task' = [pc |-> "cancelled"]
    /\ scan_task' = [pc |-> "cancelled"]
    /\ UNCHANGED << now, Disk, Index, Settings, Sched, History, Calls, request >>

\* lifespan has run, with settings under which mail can be sent on every
\* day: the directory holds the menu image of the first day, the first
\* index.scan() has indexed it, and the tasks are created.
InitLoop ==
    /\ now = CHOOSE t \in Instants : \A u \in Instants : t <= u
    /\ dir_exists = TRUE
    /\ files = {MenuImage(0)}
    /\ date_to_path \in {run.map : run \in {r \in ScanRuns(dir_exists, files) : ~r.oserror}}
    /\ last_scan = now
    /\ skip_weekends = FALSE
    /\ \E m \in {x \in MailSettings : x.smtp_host # "" /\ x.mail_from # ""} :
          /\ smtp_host = m.smtp_host
          /\ mail_from = m.mail_from
          /\ mail_to = m.mail_to
    /\ last_sent_date = None
    /\ last_sent_at = None
    /\ last_attempt_at = None
    /\ last_result = "idle"
    /\ last_error = NoError
    /\ last_handled_date = None
    /\ last_missing_log_at = None
    /\ lastOp = Quiet("env")
    /\ deliveries = {}
    /\ lateTicks = {}
    /\ attemptFailed = FALSE
    /\ NoCalls
    /\ mailer_task = [pc |-> "ready"]
    /\ scan_task = IF scan_interval_seconds > 0 THEN Sleeping ELSE [pc |-> "absent"]
    /\ request = [pc |-> "none"]

NextLoop ==
    \/ MailerWakes
    \/ TickBegin
    \/ TickRaises
    \/ TickEnd
    \/ SendNowBegin
    \/ SendNowEnd
    \/ ScanWakes
    \/ ScanLoopScans
    \/ ScanLoopRaises
    \/ Shutdown
    \/ Advance

SpecLoop == InitLoop /\ [][NextLoop]_vars

\* The event loop runs what is ready, a sleep ends, and _send_email returns
\* or times out.
FairLoop ==
    /\ WF_vars(MailerWakes)
    /\ SF_vars(TickBegin \/ TickRaises)
    /\ WF_vars(TickEnd)
    /\ WF_vars(SendNowEnd)
    /\ WF_vars(ScanWakes)
    /\ SF_vars(ScanLoopScans \/ ScanLoopRaises)

SpecLoopFair == SpecLoop /\ FairLoop

(***************************************************************************)
(* Properties of the scheduler, under Spec.                                *)
(***************************************************************************)
Today == DateOf(now)

InWindow == SendStart(Today) <= now /\ now <= SendDeadline(Today)

IsTick == lastOp'.op = "tick"

IsSendNow == lastOp'.op = "send_now"

\* The step called neither the Mail Sender nor the Notifier.
SentNothing == ~lastOp'.mail /\ lastOp'.ntfy = "none"

\* C1: once a delivery for day D has succeeded, by tick or by send_now,
\* last_sent_date is D for as long as it is day D, and every tick on day D
\* calls neither the Mail Sender nor the Notifier and changes no field of the
\* scheduler state.
C1_SentDayTicksAreNoOps ==
    [][ /\ Today' \in deliveries' => last_sent_date' = Today'
        /\ (IsTick /\ Today \in deliveries) => (SentNothing /\ UNCHANGED Sched) ]_vars

\* A tick has run after the day's delivery, inside the window, with the image
\* indexed, the settings complete and the debounce interval over.
C1_Witness ==
    /\ lastOp.op = "tick"
    /\ Today \in deliveries
    /\ InWindow
    /\ HasPath(date_to_path, IsoFormat(Today))
    /\ SmtpReady
    /\ now - last_attempt_at >= SEND_RETRY_INTERVAL_SECONDS

\* C3: on a day that is not weekend-skipped and has seen no delivery, the
\* first tick past the deadline sets last_result to "missed" and sends
\* nothing; every tick of that day after a tick past the deadline sends
\* nothing and changes no field of the scheduler state.
C3_MissedIsTerminalForTheDay ==
    [][ /\ ( /\ IsTick
             /\ now > SendDeadline(Today)
             /\ ~(skip_weekends /\ Weekday(Today) >= 5)
             /\ Today \notin deliveries
             /\ Today \notin lateTicks )
           => (last_result' = "missed" /\ SentNothing)
        /\ (IsTick /\ Today \in lateTicks) => (SentNothing /\ UNCHANGED Sched) ]_vars

\* A tick has run after the day was missed, with the image indexed by then.
C3_Witness ==
    /\ lastOp.op = "tick"
    /\ Today \in lateTicks
    /\ Today \notin deliveries
    /\ last_result = "missed"
    /\ HasPath(date_to_path, IsoFormat(Today))
    /\ PathExists(date_to_path[IsoFormat(Today)])
    /\ SmtpReady

\* C4, as stated: after a failed attempt at last_attempt_at, a tick less than
\* 120 seconds later does not call the Mail Sender, and a tick at least 120
\* seconds later that is not past the deadline, with today's image indexed and
\* the mail settings complete, calls it.
C4_AsStated ==
    [][ (IsTick /\ attemptFailed) =>
          /\ now - last_attempt_at < 120 => ~lastOp'.mail
          /\ ( /\ now - last_attempt_at >= 120
               /\ now <= SendDeadline(Today)
               /\ HasPath(date_to_path, IsoFormat(Today))
               /\ SmtpReady )
             => lastOp'.mail ]_vars

\* C4, amended: after a failed attempt at last_attempt_at, by tick or by
\* send_now, a tick less than 120 seconds later does not call the Mail
\* Sender; a tick at least 120 seconds later calls it when the day is not
\* weekend-skipped, the time is inside the send window, nothing was delivered
\* today, today's image is indexed and still on disk, and the mail settings
\* are complete.
C4_RetryAfterDebounce ==
    [][ (IsTick /\ attemptFailed) =>
          /\ now - last_attempt_at < 120 => ~lastOp'.mail
          /\ ( /\ now - last_attempt_at >= 120
               /\ ~(skip_weekends /\ Weekday(Today) >= 5)
               /\ InWindow
               /\ last_sent_date # Today
               /\ HasPath(date_to_path, IsoFormat(Today))
               /\ PathExists(date_to_path[IsoFormat(Today)])
               /\ SmtpReady )
             => lastOp'.mail ]_vars

\* A tick has called the Mail Sender again after a failed attempt.
C4_Witness ==
    /\ lastOp.op = "tick"
    /\ lastOp.mail
    /\ lastOp.retry

\* C5: with skip_weekends set, a tick on a Saturday or Sunday does not call
\* the Mail Sender.
C5_WeekendTicksNeverSend ==
    [][ (IsTick /\ skip_weekends /\ Weekday(Today) \in {5, 6}) => ~lastOp'.mail ]_vars

\* A tick has run on a skipped Saturday inside the window, with the image
\* indexed and on disk, the settings complete and nothing delivered that day.
C5_Witness ==
    /\ lastOp.op = "tick"
    /\ skip_weekends
    /\ Weekday(Today) = 5
    /\ InWindow
    /\ last_sent_date # Today
    /\ ~ImageMissing(date_to_path, Today)
    /\ SmtpReady

\* C6: a send_now whose refreshed index holds no image for today returns
\* status missing_image with today's date, does not call the Mail Sender and
\* leaves last_sent_date and last_sent_at as they were.
C6_SendNowWithoutImage ==
    [][ (IsSendNow /\ ~HasPath(date_to_path', IsoFormat(Today))) =>
          /\ lastOp'.ret.status = "missing_image"
          /\ "date" \in DOMAIN lastOp'.ret
          /\ lastOp'.ret.date = IsoFormat(Today)
          /\ ~lastOp'.mail
          /\ UNCHANGED << last_sent_date, last_sent_at >> ]_vars

\* send_now has returned missing_image on a day on which a delivery had
\* succeeded, and last_sent_date is still that day.
C6_Witness ==
    /\ lastOp.op = "send_now"
    /\ lastOp.ret.status = "missing_image"
    /\ last_sent_date = Today
    /\ last_sent_at # None

C8_ResultCarriesStatusAndDate ==
    lastOp.op = "send_now" =>
        /\ lastOp.ret.status \in {"sent", "missing_image", "config_error", "error"}
        /\ "date" \in DOMAIN lastOp.ret
        /\ lastOp.ret.date = IsoFormat(Today)

\* C15: when the Mail Sender succeeds and the Notifier fails, the tick or
\* send_now leaves last_sent_date today, last_sent_at now, last_result
\* "sent" and last_error empty, nothing is raised to the caller, and send_now
\* returns status "sent".
C15_NotifierFailureKeepsSent ==
    [][ ((IsTick \/ IsSendNow) /\ lastOp'.mail /\ lastOp'.ntfy = "failed") =>
          /\ last_sent_date' = Today
          /\ last_sent_at' = now
          /\ last_result' = "sent"
          /\ last_error' = NoError
          /\ "raised" \notin DOMAIN lastOp'.ret
          /\ IsSendNow => ( /\ "status" \in DOMAIN lastOp'.ret
                            /\ lastOp'.ret.status = "sent" ) ]_vars

\* send_now has delivered the mail and the Notifier has failed, after an
\* attempt that had left an error behind.
C15_Witness ==
    /\ lastOp.op = "send_now"
    /\ lastOp.mail
    /\ lastOp.retry
    /\ lastOp.ntfy = "failed"

\* C16: a tick on a day that is not weekend-skipped, at a time before
\* send_start, changes no field of the scheduler state, does not call
\* get_image_path, and calls neither the Mail Sender nor the Notifier.
C16_EarlyTickDoesNothing ==
    [][ ( /\ IsTick
          /\ ~(skip_weekends /\ Weekday(Today) >= 5)
          /\ now < SendStart(Today) )
        => ( /\ UNCHANGED Sched
             /\ UNCHANGED Index
             /\ ~lastOp'.lookup
             /\ SentNothing ) ]_vars

\* A tick has run before send_start on a day that is not skipped, with
\* the image indexed and on disk, the settings complete, nothing sent that
\* day and an earlier failure on record.
C16_Witness ==
    /\ lastOp.op = "tick"
    /\ ~(skip_weekends /\ Weekday(Today) >= 5)
    /\ now < SendStart(Today)
    /\ ~ImageMissing(date_to_path, Today)
    /\ SmtpReady
    /\ last_sent_date # Today
    /\ last_result = "error"

\* The tick gets past the weekend, window, already-sent and debounce checks.
PastGating ==
    /\ ~(skip_weekends /\ Weekday(Today) >= 5)
    /\ InWindow
    /\ last_sent_date # Today
    /\ ~(last_attempt_at # None /\ now - last_attempt_at < 120)

\* Today's image is indexed and its file is on disk.
ImageFound ==
    /\ HasPath(date_to_path, IsoFormat(Today))
    /\ PathExists(date_to_path[IsoFormat(Today)])

\* C17: a tick that finds today's image and incomplete mail settings sets
\* last_result to "config_error", one that finds no image sets it to
\* "waiting_image"; neither calls the Mail Sender nor changes
\* last_attempt_at.
C17_NoDebounceWithoutAttempt ==
    [][ (IsTick /\ PastGating) =>
          /\ (ImageFound /\ MissingSettings # << >>) =>
                ( /\ last_result' = "config_error"
                  /\ ~lastOp'.mail
                  /\ UNCHANGED last_attempt_at )
          /\ ~ImageFound =>
                ( /\ last_result' = "waiting_image"
                  /\ ~lastOp'.mail
                  /\ UNCHANGED last_attempt_at ) ]_vars

\* A tick inside the window has found the image and incomplete settings.
C17_Witness ==
    /\ lastOp.op = "tick"
    /\ lastOp.lookup
    /\ InWindow
    /\ ImageFound
    /\ MissingSettings # << >>
    /\ last_result = "config_error"

\* C18: when the Mail Sender fails in a tick or a send_now, last_attempt_at
\* is the time of the attempt, last_error the message of the failure and
\* last_result "error"; last_sent_date, last_sent_at and last_handled_date
\* stay as they were, the Notifier is not called, and nothing is raised to
\* the caller: send_now returns status "error" with the message.
C18_SendFailureIsRecorded ==
    [][ ((IsTick \/ IsSendNow) /\ lastOp'.mail /\ attemptFailed') =>
          /\ last_attempt_at' = now
          /\ \E message \in MailOutcomes \ {"delivered"} : last_error' = << message >>
          /\ last_result' = "error"
          /\ UNCHANGED << last_sent_date, last_sent_at, last_handled_date >>
          /\ lastOp'.ntfy = "none"
          /\ "raised" \notin DOMAIN lastOp'.ret
          /\ IsSendNow => ( /\ "status" \in DOMAIN lastOp'.ret
                            /\ lastOp'.ret.status = "error"
                            /\ lastOp'.ret.detail = last_error' ) ]_vars

\* The Mail Sender has failed in a tick on a day after a delivery: the
\* date and time of that delivery are still on record.
C18_Witness ==
    /\ lastOp.op = "tick"
    /\ lastOp.mail
    /\ attemptFailed
    /\ last_sent_date # None
    /\ last_sent_date # Today

\* C19: a tick calls the Mail Sender only at a time from send_start to
\* send_deadline of the current day, with last_sent_date not today, with
\* today's image in the index and with the mail settings complete.
C19_TickSendsOnlyInWindow ==
    [][ (IsTick /\ lastOp'.mail) =>
          /\ SendStart(Today) <= now
          /\ now <= SendDeadline(Today)
          /\ last_sent_date # Today
          /\ HasPath(date_to_path, IsoFormat(Today))
          /\ MissingSettings = << >> ]_vars

\* A tick has called the Mail Sender at send_start to the second.
C19_Witness ==
    /\ lastOp.op = "tick"
    /\ lastOp.mail
    /\ now = SendStart(Today)

\* C20: last_result, which status() reports, is one of idle,
\* skipped_weekend, waiting_image, config_error, error, sent and missed.
C20_LastResultIsOneOfSeven ==
    last_result \in {"idle", "skipped_weekend", "waiting_image", "config_error", "error",
                     "sent", "missed"}

\* C21: after any sequence of tick and send_now calls, when last_result is
\* "sent" then last_error is empty, last_sent_date and last_sent_at are set,
\* last_sent_date is the date of last_sent_at, last_attempt_at is
\* last_sent_at, and last_handled_date is last_sent_date.
C21_SentStateIsConsistent ==
    last_result = "sent" =>
        /\ last_error = NoError
        /\ last_sent_date # None
        /\ last_sent_at # None
        /\ last_sent_date = DateOf(last_sent_at)
        /\ last_attempt_at = last_sent_at
        /\ last_handled_date = last_sent_date

\* last_result is "sent" after a delivery that followed a tick waiting for
\* the image, and a later tick has run and left it so.
C21_Witness ==
    /\ last_result = "sent"
    /\ lastOp.op = "tick"
    /\ ~lastOp.mail
    /\ now > last_sent_at
    /\ last_missing_log_at # None

(***************************************************************************)
(* Properties of the drivers, under SpecLoop and SpecLoopFair.             *)
(***************************************************************************)
\* C13: tick() and send_now() never run at the same time (mailer_loop being
\* one task, neither do two ticks), and a tick never enters or leaves
\* _send_email for a day on which a delivery has succeeded by then.
C13_TickAndSendNowSerialized ==
    [][ /\ ~(mailer_task'.pc = "send" /\ request'.pc = "send")
        /\ (mailer_task.pc # "send" /\ mailer_task'.pc = "send")
              => DateOf(now) \notin deliveries
        /\ (mailer_task.pc = "send" /\ mailer_task'.pc # "send")
              => DateOf(mailer_task.now) \notin deliveries ]_vars

\* tick() is due, and would send, while send_now() is inside _send_email.
C13_Witness ==
    /\ request.pc = "send"
    /\ mailer_task.pc = "ready"
    /\ TickSends(now, DateOf(now))

\* C14: an exception of tick() or of scan() does not end the driver that
\* made the call: unless the application shuts down, mailer_loop comes to
\* call tick() again and again, and so does scan_loop with scan().
C14_DriversKeepRunning ==
    \/ <>(mailer_task.pc = "cancelled")
    \/ /\ []<>(mailer_task.pc = "ready")
       /\ []<>(mailer_task.pc # "ready")
       /\ []<>(scan_task.pc = "ready")
       /\ []<>(scan_task.pc # "ready")

\* mailer_loop is about to call tick() again after a tick() that raised.
C14_Witness ==
    /\ lastOp.op = "tick"
    /\ "raised" \in DOMAIN lastOp.ret
    /\ mailer_task.pc = "ready"

(***************************************************************************)
(* Properties of the index, under SpecIndex.                               *)
(***************************************************************************)
\* A scan() has returned.
ScanReturned == scan_pc = "idle" /\ "oserror" \in DOMAIN scanned

\* The regular files among entries that are named for the date key.
Matching(entries, key) ==
    {e \in entries : /\ e.is_file
                     /\ PatternMatches(e.name)
                     /\ ValidIsoDate(DateGroup(e.name))
                     /\ DateGroup(e.name) = key}

DateKeys == {DateGroup(e.name) : e \in AllEntries}

\* C2: a scan() that hit OSError while enumerating the directory leaves the
\* published map and the scan timestamp as they were before the call.
C2_FailedScanKeepsSnapshot ==
    (ScanReturned /\ scanned.oserror) =>
        Snapshot(date_to_path, last_scan) = scanned.before

C12_MissingDirectoryEmptiesIndex ==
    (ScanReturned /\ ~scanned.existed) =>
        /\ ~scanned.oserror
        /\ date_to_path = EmptyMap
        /\ last_scan = scan_time
        /\ last_scan # scanned.before.time
        /\ (read_pc = "locked" /\ read_call.fn = "get_image_path") => ReadResult = NoReturn

\* get_image_path() is answered after a scan() found the directory missing;
\* the snapshot before that scan held a path.
C12_Witness ==
    /\ ScanReturned
    /\ ~scanned.existed
    /\ scanned.before.map # EmptyMap
    /\ read_pc = "locked"
    /\ read_call.fn = "get_image_path"
    /\ read_call.date_str \in DOMAIN scanned.before.map

\* The scan() that returned enumerated the whole directory, and the
\* directory is as it was listed.
ScannedWhole ==
    /\ ScanReturned
    /\ scanned.existed
    /\ ~scanned.oserror
    /\ dir_exists
    /\ files = scanned.entries

\* C9: a scan() that enumerated the whole directory, in whatever order,
\* publishes for each date key the matching file with the smallest name, and
\* no path for a key without a matching file.
C9_SmallestNameWins ==
    ScannedWhole =>
        \A key \in DateKeys \cup DOMAIN date_to_path :
            LET candidates == Matching(scanned.entries, key)
            IN  IF candidates = {} THEN key \notin DOMAIN date_to_path
                ELSE /\ key \in DOMAIN date_to_path
                     /\ date_to_path[key] \in candidates
                     /\ \A c \in candidates : ~StrLess(c.name, date_to_path[key].name)

\* A scan() has returned from a directory with two files for one date key.
C9_Witness ==
    /\ ScannedWhole
    /\ \E key \in DateKeys : Cardinality(Matching(scanned.entries, key)) >= 2

\* C10: whenever _update_index is not inside its locked section, the map and
\* the timestamp of the index are those of one completed _update_index call
\* (or the initial empty ones), so a get_image_path() or last_scan_iso() call
\* holding the lock is answered from that one snapshot, whatever scan() has
\* built so far.
C10_ReadersSeeOneSnapshot ==
    /\ lock # "scan" => Snapshot(date_to_path, last_scan) = latest
    /\ read_pc = "locked" => ReadResult = Answer(read_call, latest.map, latest.time)

\* get_image_path() holds the lock on a published snapshot while a scan()
\* has collected a different map.
C10_Witness ==
    /\ read_pc = "locked"
    /\ read_call.fn = "get_image_path"
    /\ scan_pc \in {"iterate", "update"}
    /\ last_scan # None
    /\ new_map # date_to_path
    /\ new_map # EmptyMap

====
